---- MODULE Spec2Model ----
(***************************************************************************)
(* Model of workloadidentityfed.go: the constructor                        *)
(* NewWorkloadIdentityFederationCredential (configuration resolution and   *)
(* construction of the client-assertion credential) and the cached         *)
(* assertion provider getAssertion, a double-checked lazy refresh under a  *)
(* sync.RWMutex, run by several goroutines while the clock advances.       *)
(* Times are whole seconds; each line of getAssertion that touches shared  *)
(* state is one step of the calling goroutine.                             *)
(***************************************************************************)
EXTENDS Integers, FiniteSets, Sequences, TLC

\* ------------------------------------------------------------------ bounds
NumCallers == 2       \* goroutines calling getAssertion
MaxCalls == 2         \* calls each goroutine makes
MaxTick == 2          \* seconds the clock may advance after construction
T0 == 1000            \* the clock at construction, in seconds

\* ------------------------------------------------------- program constants
Margin == 600         \* 10 * time.Minute, in seconds
ZeroTime == 0         \* time.Time{}: the value of a time field never assigned

azureClientID == "AZURE_CLIENT_ID"
azureTenantID == "AZURE_TENANT_ID"
azureFederatedTokentoken == "AZURE_FEDERATED_TOKEN"
EnvNames == {azureClientID, azureTenantID, azureFederatedTokentoken}

errorClientIDNotSpecified == "errorClientIDNotSpecified"
errorTokenNotSpecified == "errorTokenNotSpecified"
errorTenantIDNotSpecified == "errorTenantIDNotSpecified"
ConfigErrors ==
    {errorClientIDNotSpecified, errorTokenNotSpecified, errorTenantIDNotSpecified}

\* ------------------------------------------------------------ model values
Nil == "nil"                      \* a nil error, a nil pointer
NotSet == "<not set>"             \* an environment variable that is not set
errCollaborator == "errNewClientAssertionCredential"
Callers == 1..NumCallers
\* expiries a caller may put in options.FederatedToken.Expiry: none (the zero
\* time), and one second past the safety margin at construction
Expiries == {ZeroTime, T0 + Margin + 1}

VARIABLES
    env,        \* the process environment: EnvNames -> value or NotSet
    options,    \* the constructor's argument: [nil, ClientID, TenantID, FederatedToken]
    stage,      \* the constructor's position: "new", "resolved", "ok", "failed"
    err,        \* the error the constructor returned (Nil: none)
    clientID,   \* the constructor's local clientID
    tenantID,   \* the constructor's local tenantID
    token,      \* the constructor's local token, stored as w.token
    cred,       \* w.cred
    assertion,  \* w.assertion
    expires,    \* w.expires
    mtx,        \* w.mtx: [readers: count of read locks held, w: the goroutines holding
                \* the writers' inner mutex (none or one), locked: write lock held]
    now,        \* the wall clock read by time.Now()
    pc,         \* each goroutine's position: in getAssertion, or "idle", "ret"
                \* (getAssertion returned), "got" (GetToken returned)
    deferred,   \* each goroutine's deferred call: "none", "RUnlock", "Unlock"
    ret,        \* each goroutine's return value <<string, error>>, <<>> before it returns
    calls,      \* how many calls each goroutine has started
    seen,       \* <<refreshes>> as it was when the goroutine found the cache expired, else <<>>
    refreshes,  \* how many times the recomputation body has run
    getToken    \* each goroutine's last GetToken: <<what w.cred.GetToken returned,
                \* what GetToken returned>>, each <<token, error>>; <<>> if none

vars == <<env, options, stage, err, clientID, tenantID, token, cred, assertion,
          expires, mtx, now, pc, deferred, ret, calls, seen, refreshes, getToken>>
ctorVars == <<env, options, stage, err, clientID, tenantID, token, cred>>
cacheVars == <<assertion, expires>>
ghostVars == <<seen, refreshes>>

\* ----------------------------------------------------------- pure helpers
\* Before that also holds of equal times
Before_OrEqual(t, u) == t <= u

\* time.Time.Before
Before(t, u) == t < u

\* Add with the sign of the duration lost
Add_Negated(t, d) == t - d

\* time.Time.Add, with a duration in seconds
Add(t, d) == t + d

\* os.LookupEnv: <<value, ok>>
LookupEnv(name) ==
    IF env[name] = NotSet THEN <<"", FALSE>> ELSE <<env[name], TRUE>>

ZeroToken == [AccessToken |-> "", Expiry |-> ZeroTime]

\* lines 64-66: nil options are replaced by the zero value of the options
Opts ==
    IF options.nil
    THEN [ClientID |-> "", TenantID |-> "", FederatedToken |-> ZeroToken]
    ELSE [ClientID |-> options.ClientID, TenantID |-> options.TenantID,
          FederatedToken |-> options.FederatedToken]

\* ResolveClientID that lets the environment win over the option
ResolveClientID_EnvFirst ==
    IF env[azureClientID] # NotSet
    THEN LookupEnv(azureClientID)
    ELSE <<Opts.ClientID, Opts.ClientID # "">>

\* lines 68-73: <<clientID, ok>>
ResolveClientID ==
    IF Opts.ClientID = "" THEN LookupEnv(azureClientID) ELSE <<Opts.ClientID, TRUE>>

\* ResolveToken with no fallback to the environment once options are given
ResolveToken_NoFallback ==
    IF Opts.FederatedToken.AccessToken = ""
    THEN LET l == LookupEnv(azureFederatedTokentoken)
         IN  <<[Opts.FederatedToken EXCEPT !.AccessToken = l[1]],
               options.nil /\ l[2] /\ l[1] # "">>
    ELSE <<Opts.FederatedToken, TRUE>>

\* lines 74-79: <<token, ok>>; the option's Expiry stays when AccessToken comes
\* from the environment, and an empty value from the environment is refused
ResolveToken ==
    IF Opts.FederatedToken.AccessToken = ""
    THEN LET l == LookupEnv(azureFederatedTokentoken)
         IN  <<[Opts.FederatedToken EXCEPT !.AccessToken = l[1]],
               l[2] /\ l[1] # "">>
    ELSE <<Opts.FederatedToken, TRUE>>

\* lines 80-85: <<tenantID, ok>>
ResolveTenantID ==
    IF Opts.TenantID = "" THEN LookupEnv(azureTenantID) ELSE <<Opts.TenantID, TRUE>>

\* --------------------------------------------------------- the constructor
\* NewW with expires taken from the token instead of left zero
NewW_ExpiresFromToken ==
    /\ assertion' = ""
    /\ expires' = token'.Expiry
    /\ mtx' = [readers |-> 0, w |-> {}, locked |-> FALSE]

\* line 86: the struct literal names token and mtx only, so assertion is the
\* empty string and expires the zero time, and the mutex is unlocked
NewW ==
    /\ assertion' = ""
    /\ expires' = ZeroTime
    /\ mtx' = [readers |-> 0, w |-> {}, locked |-> FALSE]

\* ResolveConfig that checks tenantID before the token
ResolveConfig_TenantBeforeToken ==
    /\ stage = "new"
    /\ LET c == ResolveClientID
           t == ResolveToken
           n == ResolveTenantID
       IN  IF ~c[2]
           THEN /\ err' = errorClientIDNotSpecified
                /\ stage' = "failed"
                /\ clientID' = c[1]
                /\ UNCHANGED <<tenantID, token, assertion, expires, mtx>>
           ELSE IF ~n[2]
           THEN /\ err' = errorTenantIDNotSpecified
                /\ stage' = "failed"
                /\ clientID' = c[1]
                /\ tenantID' = n[1]
                /\ UNCHANGED <<token, assertion, expires, mtx>>
           ELSE IF ~t[2]
           THEN /\ err' = errorTokenNotSpecified
                /\ stage' = "failed"
                /\ clientID' = c[1]
                /\ token' = t[1]
                /\ tenantID' = n[1]
                /\ UNCHANGED <<assertion, expires, mtx>>
           ELSE /\ stage' = "resolved"
                /\ clientID' = c[1]
                /\ tenantID' = n[1]
                /\ token' = t[1]
                /\ NewW
                /\ UNCHANGED err
    /\ UNCHANGED <<env, options, cred, now, pc, deferred, ret, calls, seen, refreshes, getToken>>

\* ResolveConfig that leaves the missing tenantID to the collaborator
ResolveConfig_NoTenantCheck ==
    /\ stage = "new"
    /\ LET c == ResolveClientID
           t == ResolveToken
           n == ResolveTenantID
       IN  IF ~c[2]
           THEN /\ err' = errorClientIDNotSpecified
                /\ stage' = "failed"
                /\ clientID' = c[1]
                /\ UNCHANGED <<tenantID, token, assertion, expires, mtx>>
           ELSE IF ~t[2]
           THEN /\ err' = errorTokenNotSpecified
                /\ stage' = "failed"
                /\ clientID' = c[1]
                /\ token' = t[1]
                /\ UNCHANGED <<tenantID, assertion, expires, mtx>>
           ELSE /\ stage' = "resolved"
                /\ clientID' = c[1]
                /\ tenantID' = n[1]
                /\ token' = t[1]
                /\ NewW
                /\ UNCHANGED err
    /\ UNCHANGED <<env, options, cred, now, pc, deferred, ret, calls, seen, refreshes, getToken>>

\* lines 63-86: resolve the three fields in the order clientID, token,
\* tenantID, returning at the first one that cannot be resolved; on success
\* build w with the token and a fresh mutex (assertion and expires zero)
ResolveConfig ==
    /\ stage = "new"
    /\ LET c == ResolveClientID
           t == ResolveToken
           n == ResolveTenantID
       IN  IF ~c[2]
           THEN /\ err' = errorClientIDNotSpecified
                /\ stage' = "failed"
                /\ clientID' = c[1]
                /\ UNCHANGED <<tenantID, token, assertion, expires, mtx>>
           ELSE IF ~t[2]
           THEN /\ err' = errorTokenNotSpecified
                /\ stage' = "failed"
                /\ clientID' = c[1]
                /\ token' = t[1]
                /\ UNCHANGED <<tenantID, assertion, expires, mtx>>
           ELSE IF ~n[2]
           THEN /\ err' = errorTenantIDNotSpecified
                /\ stage' = "failed"
                /\ clientID' = c[1]
                /\ token' = t[1]
                /\ tenantID' = n[1]
                /\ UNCHANGED <<assertion, expires, mtx>>
           ELSE /\ stage' = "resolved"
                /\ clientID' = c[1]
                /\ tenantID' = n[1]
                /\ token' = t[1]
                /\ NewW
                /\ UNCHANGED err
    /\ UNCHANGED <<env, options, cred, now, pc, deferred, ret, calls, seen, refreshes, getToken>>

\* lines 87-98: azidentity.NewClientAssertionCredential(tenantID, clientID,
\* w.getAssertion, &caco) either fails, and its error is returned with no
\* credential, or gives the credential stored in w.cred
NewClientAssertionCredential ==
    /\ stage = "resolved"
    /\ \/ /\ err' = errCollaborator
          /\ stage' = "failed"
          /\ UNCHANGED cred
       \/ /\ cred' = "cred"
          /\ stage' = "ok"
          /\ UNCHANGED err
    /\ UNCHANGED <<env, options, clientID, tenantID, token, assertion, expires,
                   mtx, now, pc, deferred, ret, calls, seen, refreshes, getToken>>

\* ------------------------------------------------------------ sync.RWMutex
\* CanRLock of a plain mutex: a reader also waits for the other readers
CanRLock_Exclusive == mtx.w = {} /\ ~mtx.locked /\ mtx.readers = 0

\* CanRLock that lets a reader in beside a writer
CanRLock_IgnoreWriter == TRUE

\* RLock can take a read lock: no writer holds the lock or has announced
\* itself (a pending Lock holds back new readers)
CanRLock == mtx.w = {} /\ ~mtx.locked

\* Lock can begin: the writers' inner mutex is free
CanLockBegin == mtx.w = {}

\* CanLockEnd that does not wait for the readers to leave
CanLockEnd_IgnoreReaders(p) == mtx.w = {p} /\ ~mtx.locked

\* Lock returns: the readers that held the lock have all left
CanLockEnd(p) == mtx.w = {p} /\ mtx.readers = 0 /\ ~mtx.locked

\* -------------------------------------------------------------- getAssertion
\* a goroutine (the collaborator's callback) calls getAssertion
Call(p) ==
    /\ stage = "ok"
    /\ pc[p] \in {"idle", "ret", "got"}
    /\ calls[p] < MaxCalls
    /\ pc' = [pc EXCEPT ![p] = "l108"]
    /\ calls' = [calls EXCEPT ![p] = @ + 1]
    /\ ret' = [ret EXCEPT ![p] = <<>>]
    /\ seen' = [seen EXCEPT ![p] = <<>>]
    /\ getToken' = [getToken EXCEPT ![p] = <<>>]
    /\ UNCHANGED <<ctorVars, cacheVars, mtx, now, deferred, refreshes>>

\* line 108: w.mtx.RLock()
L108(p) ==
    /\ pc[p] = "l108"
    /\ CanRLock
    /\ mtx' = [mtx EXCEPT !.readers = @ + 1]
    /\ pc' = [pc EXCEPT ![p] = "l109"]
    /\ UNCHANGED <<ctorVars, cacheVars, now, deferred, ret, calls, ghostVars, getToken>>

\* L109 that takes the refresh path whatever the expiry
L109_AlwaysRefresh(p) ==
    /\ pc[p] = "l109"
    /\ pc' = [pc EXCEPT ![p] = "l111"]
    /\ seen' = [seen EXCEPT ![p] = <<refreshes>>]
    /\ UNCHANGED <<ctorVars, cacheVars, mtx, now, deferred, ret, calls, refreshes, getToken>>

\* lines 109, 120-122: if w.expires.Before(time.Now()) take the refresh
\* path, else defer w.mtx.RUnlock() and go to the return statement
L109(p) ==
    /\ pc[p] = "l109"
    /\ IF Before(expires, now)
       THEN /\ pc' = [pc EXCEPT ![p] = "l111"]
            /\ seen' = [seen EXCEPT ![p] = <<refreshes>>]
            /\ UNCHANGED deferred
       ELSE /\ pc' = [pc EXCEPT ![p] = "l123"]
            /\ deferred' = [deferred EXCEPT ![p] = "RUnlock"]
            /\ UNCHANGED seen
    /\ UNCHANGED <<ctorVars, cacheVars, mtx, now, ret, calls, refreshes, getToken>>

\* L111 with the RUnlock forgotten: the caller asks for the exclusive lock
\* while it holds the shared one
L111_NoRUnlock(p) ==
    /\ pc[p] = "l111"
    /\ pc' = [pc EXCEPT ![p] = "l112"]
    /\ UNCHANGED <<ctorVars, cacheVars, mtx, now, deferred, ret, calls, ghostVars, getToken>>

\* line 111: w.mtx.RUnlock()
L111(p) ==
    /\ pc[p] = "l111"
    /\ mtx' = [mtx EXCEPT !.readers = @ - 1]
    /\ pc' = [pc EXCEPT ![p] = "l112"]
    /\ UNCHANGED <<ctorVars, cacheVars, now, deferred, ret, calls, ghostVars, getToken>>

\* line 112, w.mtx.Lock(), first half: take the writers' inner mutex and
\* announce the pending writer to the readers
L112(p) ==
    /\ pc[p] = "l112"
    /\ CanLockBegin
    /\ mtx' = [mtx EXCEPT !.w = {p}]
    /\ pc' = [pc EXCEPT ![p] = "l112w"]
    /\ UNCHANGED <<ctorVars, cacheVars, now, deferred, ret, calls, ghostVars, getToken>>

\* lines 112-113, w.mtx.Lock(), second half: once the active readers have
\* left the lock is held; defer w.mtx.Unlock()
L112w(p) ==
    /\ pc[p] = "l112w"
    /\ CanLockEnd(p)
    /\ mtx' = [mtx EXCEPT !.locked = TRUE]
    /\ deferred' = [deferred EXCEPT ![p] = "Unlock"]
    /\ pc' = [pc EXCEPT ![p] = "l115"]
    /\ UNCHANGED <<ctorVars, cacheVars, now, ret, calls, ghostVars, getToken>>

\* L115 with the test inverted: recompute when the cache is fresh
L115_Inverted(p) ==
    /\ pc[p] = "l115"
    /\ pc' = [pc EXCEPT ![p] = IF Before(expires, now) THEN "l123" ELSE "l116"]
    /\ UNCHANGED <<ctorVars, cacheVars, mtx, now, deferred, ret, calls, ghostVars, getToken>>

\* L115 without the double check: always recompute
L115_NoDoubleCheck(p) ==
    /\ pc[p] = "l115"
    /\ pc' = [pc EXCEPT ![p] = "l116"]
    /\ UNCHANGED <<ctorVars, cacheVars, mtx, now, deferred, ret, calls, ghostVars, getToken>>

\* line 115: the double check, if now := time.Now(); w.expires.Before(now)
L115(p) ==
    /\ pc[p] = "l115"
    /\ pc' = [pc EXCEPT ![p] = IF Before(expires, now) THEN "l116" ELSE "l123"]
    /\ UNCHANGED <<ctorVars, cacheVars, mtx, now, deferred, ret, calls, ghostVars, getToken>>

\* L116 that reads the token again from the environment and keeps it
L116_RereadsEnvironment(p) ==
    /\ pc[p] = "l116"
    /\ token' = [token EXCEPT !.AccessToken = LookupEnv(azureFederatedTokentoken)[1]]
    /\ assertion' = token'.AccessToken
    /\ pc' = [pc EXCEPT ![p] = "l118"]
    /\ UNCHANGED <<env, options, stage, err, clientID, tenantID, cred, expires,
                   mtx, now, deferred, ret, calls, ghostVars, getToken>>

\* line 116: w.assertion = w.token.AccessToken
L116(p) ==
    /\ pc[p] = "l116"
    /\ assertion' = token.AccessToken
    /\ pc' = [pc EXCEPT ![p] = "l118"]
    /\ UNCHANGED <<ctorVars, expires, mtx, now, deferred, ret, calls, ghostVars, getToken>>

\* L118 that keeps the cache for ten minutes from now, whatever the
\* token's expiry
L118_FromNow(p) ==
    /\ pc[p] = "l118"
    /\ expires' = Add(now, Margin)
    /\ refreshes' = refreshes + 1
    /\ pc' = [pc EXCEPT ![p] = "l123"]
    /\ UNCHANGED <<ctorVars, assertion, mtx, now, deferred, ret, calls, seen, getToken>>

\* L118 without the safety margin
L118_NoMargin(p) ==
    /\ pc[p] = "l118"
    /\ expires' = token.Expiry
    /\ refreshes' = refreshes + 1
    /\ pc' = [pc EXCEPT ![p] = "l123"]
    /\ UNCHANGED <<ctorVars, assertion, mtx, now, deferred, ret, calls, seen, getToken>>

\* line 118: w.expires = w.token.Expiry.Add(-10 * time.Minute); the
\* recomputation body has now run once more
L118(p) ==
    /\ pc[p] = "l118"
    /\ expires' = Add(token.Expiry, -Margin)
    /\ refreshes' = refreshes + 1
    /\ pc' = [pc EXCEPT ![p] = "l123"]
    /\ UNCHANGED <<ctorVars, assertion, mtx, now, deferred, ret, calls, seen, getToken>>

\* L123 that reports an expired cache as an error
L123_ErrorWhenExpired(p) ==
    /\ pc[p] = "l123"
    /\ ret' = [ret EXCEPT ![p] =
                  <<assertion, IF Before(expires, now) THEN "errExpired" ELSE Nil>>]
    /\ pc' = [pc EXCEPT ![p] = "defer"]
    /\ UNCHANGED <<ctorVars, cacheVars, mtx, now, deferred, calls, ghostVars, getToken>>

\* line 123: return w.assertion, nil; the results are evaluated before the
\* deferred call runs
L123(p) ==
    /\ pc[p] = "l123"
    /\ ret' = [ret EXCEPT ![p] = <<assertion, Nil>>]
    /\ pc' = [pc EXCEPT ![p] = "defer"]
    /\ UNCHANGED <<ctorVars, cacheVars, mtx, now, deferred, calls, ghostVars, getToken>>

\* RunDeferred with the Unlock of the slow path forgotten
RunDeferred_NoUnlock(p) ==
    /\ pc[p] = "defer"
    /\ mtx' = IF deferred[p] = "Unlock"
              THEN mtx
              ELSE [mtx EXCEPT !.readers = @ - 1]
    /\ deferred' = [deferred EXCEPT ![p] = "none"]
    /\ pc' = [pc EXCEPT ![p] = "ret"]
    /\ UNCHANGED <<ctorVars, cacheVars, now, ret, calls, ghostVars, getToken>>

\* lines 113, 121: the deferred w.mtx.Unlock() or w.mtx.RUnlock() runs and
\* the call returns
RunDeferred(p) ==
    /\ pc[p] = "defer"
    /\ mtx' = IF deferred[p] = "Unlock"
              THEN [mtx EXCEPT !.w = {}, !.locked = FALSE]
              ELSE [mtx EXCEPT !.readers = @ - 1]
    /\ deferred' = [deferred EXCEPT ![p] = "none"]
    /\ pc' = [pc EXCEPT ![p] = "ret"]
    /\ UNCHANGED <<ctorVars, cacheVars, now, ret, calls, ghostVars, getToken>>

\* what the collaborator's GetToken may return: an access token, or an error
CredGetTokenResults == {<<"accessToken", Nil>>, <<"", "errCredGetToken">>}

\* GetToken that wraps the collaborator's error in one of its own
GetToken_WrapsError(p) ==
    /\ stage = "ok"
    /\ pc[p] \in {"idle", "ret"}
    /\ \E r \in CredGetTokenResults :
          getToken' = [getToken EXCEPT ![p] =
              <<r, IF r[2] = Nil THEN r ELSE <<"", "errGetToken">>>>]
    /\ pc' = [pc EXCEPT ![p] = "got"]
    /\ UNCHANGED <<ctorVars, cacheVars, mtx, now, deferred, ret, calls, ghostVars>>

\* lines 102-104: GetToken returns what w.cred.GetToken(ctx, opts) returns;
\* the collaborator has called getAssertion as often as it needed to (none
\* for a goroutine that is "idle") and answers with a token or an error
GetToken(p) ==
    /\ stage = "ok"
    /\ pc[p] \in {"idle", "ret"}
    /\ \E r \in CredGetTokenResults :
          getToken' = [getToken EXCEPT ![p] = <<r, r>>]
    /\ pc' = [pc EXCEPT ![p] = "got"]
    /\ UNCHANGED <<ctorVars, cacheVars, mtx, now, deferred, ret, calls, ghostVars>>

\* time passes: time.Now() is one second later
Tick ==
    /\ stage = "ok"
    /\ now < T0 + MaxTick
    /\ now' = now + 1
    /\ UNCHANGED <<ctorVars, cacheVars, mtx, pc, deferred, ret, calls, ghostVars, getToken>>

\* ------------------------------------------------------------ specifications
OptionValues ==
    [nil : {FALSE},
     ClientID : {"", "optClient"},
     TenantID : {"", "optTenant"},
     FederatedToken : [AccessToken : {"", "tok2"}, Expiry : Expiries]]

NilOptions ==
    [nil |-> TRUE, ClientID |-> "", TenantID |-> "", FederatedToken |-> ZeroToken]

EnvValues ==
    {e \in [EnvNames -> {NotSet, "", "abc", "def", "tok1"}] :
        /\ e[azureClientID] \in {NotSet, "", "abc"}
        /\ e[azureTenantID] \in {NotSet, "", "def"}
        /\ e[azureFederatedTokentoken] \in {NotSet, "", "tok1"}}

\* everything but the constructor's inputs, before the constructor runs
InitRest ==
    /\ stage = "new"
    /\ err = Nil
    /\ clientID = ""
    /\ tenantID = ""
    /\ token = ZeroToken
    /\ cred = Nil
    /\ assertion = ""
    /\ expires = ZeroTime
    /\ mtx = [readers |-> 0, w |-> {}, locked |-> FALSE]
    /\ now = T0
    /\ pc = [p \in Callers |-> "idle"]
    /\ deferred = [p \in Callers |-> "none"]
    /\ ret = [p \in Callers |-> <<>>]
    /\ calls = [p \in Callers |-> 0]
    /\ seen = [p \in Callers |-> <<>>]
    /\ refreshes = 0
    /\ getToken = [p \in Callers |-> <<>>]

\* the constructor over every combination of options and environment
InitConfig ==
    /\ env \in EnvValues
    /\ options \in OptionValues \cup {NilOptions}
    /\ InitRest

NextConfig == ResolveConfig \/ NewClientAssertionCredential

SpecConfig == InitConfig /\ [][NextConfig]_vars

\* the credential in use: client and tenant ID from the environment of the
\* workload identity webhook, the token from the environment (tok1), from
\* the options beside it (tok2), or from neither
Init ==
    /\ env \in {e \in EnvValues :
                    /\ e[azureClientID] = "abc"
                    /\ e[azureTenantID] = "def"
                    /\ e[azureFederatedTokentoken] \in {NotSet, "tok1"}}
    /\ options \in {o \in OptionValues : o.ClientID = "" /\ o.TenantID = ""}
                       \cup {NilOptions}
    /\ env[azureFederatedTokentoken] = NotSet => options = NilOptions
    /\ InitRest

Next ==
    \/ ResolveConfig
    \/ NewClientAssertionCredential
    \/ Tick
    \/ \E p \in Callers :
         \/ Call(p)
         \/ L108(p)
         \/ L109(p)
         \/ L111(p)
         \/ L112(p)
         \/ L112w(p)
         \/ L115(p)
         \/ L116(p)
         \/ L118(p)
         \/ L123(p)
         \/ RunDeferred(p)

Spec == Init /\ [][Next]_vars

\* a goroutine's steps inside getAssertion
Step(p) ==
    \/ L108(p) \/ L109(p) \/ L111(p) \/ L112(p) \/ L112w(p)
    \/ L115(p) \/ L116(p) \/ L118(p) \/ L123(p) \/ RunDeferred(p)

\* the Go scheduler runs every goroutine that can run, and a goroutine
\* waiting for the lock gets it once it stays free for it
Fairness == \A p \in Callers : WF_vars(Step(p))

SpecFair == Spec /\ Fairness

\* the credential with GetToken calls beside the collaborator's calls of
\* getAssertion, over two working configurations (the token from the
\* environment with no options; the token and a real expiry from the options)
\* and every configuration in which a required field is missing
AllSupplied ==
    /\ ResolveClientID[2]
    /\ ResolveToken[2]
    /\ ResolveTenantID[2]

InitUse ==
    \/ /\ Init
       /\ env[azureFederatedTokentoken] = "tok1"
       /\ \/ options = NilOptions
          \/ options.FederatedToken = [AccessToken |-> "tok2", Expiry |-> T0 + Margin + 1]
    \/ /\ InitConfig
       /\ ~AllSupplied

NextUse == Next \/ \E p \in Callers : GetToken(p)

SpecUse == InitUse /\ [][NextUse]_vars

\* ------------------------------------------------------------------ claims
\* what the claims call the lock sections and the refreshed cache
InExclusive(p) ==
    \/ pc[p] \in {"l115", "l116", "l118"}
    \/ pc[p] \in {"l123", "defer"} /\ deferred[p] = "Unlock"

HoldsShared(p) ==
    \/ pc[p] \in {"l109", "l111"}
    \/ pc[p] \in {"l123", "defer"} /\ deferred[p] = "RUnlock"

\* the refreshed cache would be valid now: token expiry - 10 minutes is not
\* before the clock
TokenFresh == token.Expiry - Margin >= now

\* all callers found the cache expired after the same number of refreshes
\* (so before any of them refreshed it: they raced on one expiry), and all
\* have returned
RaceReturned ==
    /\ stage = "ok"
    /\ \A p \in Callers : pc[p] = "ret" /\ seen[p] # <<>>
    /\ \A p, q \in Callers : seen[p] = seen[q]

SameStrings == \A p, q \in Callers : ret[p][1] = ret[q][1]

\* C1 as stated: whenever all N callers raced on an expired cache, the
\* recomputation body ran exactly once for them and they all got the same
\* string, whatever the federated token's expiry.
C1_Original ==
    RaceReturned =>
        /\ \A p \in Callers : refreshes = seen[p][1] + 1
        /\ SameStrings

\* C1 (amended): whenever all N callers raced on an expired cache they all
\* got the same string, and if the token's expiry - 10 minutes is not before
\* the clock the recomputation body ran exactly once for them.
C1_SingleRefresh ==
    RaceReturned =>
        /\ SameStrings
        /\ TokenFresh => \A p \in Callers : refreshes = seen[p][1] + 1

C1_Witness == RaceReturned /\ TokenFresh /\ refreshes = 1

\* C2: at most one caller is inside the exclusive section, no caller holds the
\* shared lock while another is inside the exclusive section, and a step that
\* changes assertion or expires is a step of a caller that holds the
\* exclusive lock.
C2_MutualExclusion ==
    /\ [](/\ Cardinality({p \in Callers : InExclusive(p)}) <= 1
          /\ \A p, q \in Callers : InExclusive(p) => ~HoldsShared(q))
    /\ [][(assertion' # assertion \/ expires' # expires) =>
             \E p \in Callers :
                 /\ InExclusive(p)
                 /\ mtx.locked /\ mtx.w = {p}
                 /\ pc'[p] # pc[p]]_vars

C2_Witness ==
    \E p, q \in Callers :
        /\ pc[p] = "l118" /\ assertion # ""
        /\ pc[q] = "l108"

\* C3: whenever a caller is at a point where it reads the pair (the expiry
\* check under the shared lock, the re-check under the exclusive lock, the
\* read of the returned assertion), the pair is the initial one or the fully
\* refreshed one.
WholePair ==
    \/ assertion = "" /\ expires = ZeroTime
    \/ assertion = token.AccessToken /\ expires = token.Expiry - Margin

C3_NoTornRead ==
    stage = "ok" =>
        \A p \in Callers : pc[p] \in {"l109", "l115", "l123"} => WholePair

\* the pair is half written while another caller is about to read it
C3_Witness ==
    \E p, q \in Callers :
        /\ pc[p] = "l118" /\ ~WholePair
        /\ pc[q] \in {"l108", "l112w"}

\* C4 as stated: when a call reads the assertion it returns, expires is not
\* before the clock.
C4_Original ==
    \A p \in Callers : pc[p] = "l123" => ~(expires < now)

\* C4 (amended): when a call reads the assertion it returns, expires is not
\* before the clock exactly when the token's expiry - 10 minutes is not
\* before the clock.
C4_ValidWhenTokenFresh ==
    \A p \in Callers : pc[p] = "l123" => (~(expires < now) <=> TokenFresh)

C4_Witness ==
    \E p \in Callers : pc[p] = "l123" /\ TokenFresh /\ now > T0 /\ calls[p] > 1

\* C5: after a successful construction every value getAssertion returns is
\* the access token the constructor resolved from the options and the
\* environment, never the empty string; it is "tok1" when it came from
\* AZURE_FEDERATED_TOKEN=tok1 with no options.
ExpectedAccessToken ==
    IF options.FederatedToken.AccessToken # ""
    THEN options.FederatedToken.AccessToken
    ELSE env[azureFederatedTokentoken]

C5_ReturnsToken ==
    \A p \in Callers :
        ret[p] # <<>> =>
            /\ ret[p][1] = ExpectedAccessToken
            /\ ret[p][1] # ""
            /\ (options.nil /\ env[azureFederatedTokentoken] = "tok1")
                   => ret[p][1] = "tok1"

C5_Witness ==
    /\ options.nil
    /\ \A p \in Callers : calls[p] = MaxCalls /\ ret[p] = <<"tok1", Nil>>

\* C6: every return of getAssertion carries a nil error, on the fast path,
\* on the slow path with recomputation and on the slow path without.
C6_NilError ==
    \A p \in Callers : ret[p] # <<>> => ret[p][2] = Nil

\* one caller has returned from the fast path (its second call), the other
\* from the slow path, and the body has run once: the three paths were taken
C6_Witness ==
    \E p, q \in Callers :
        /\ pc[p] = "ret" /\ calls[p] = 2 /\ seen[p] = <<>> /\ ret[p][2] = Nil
        /\ pc[q] = "ret" /\ calls[q] = 1 /\ seen[q] = <<0>> /\ ret[q][2] = Nil
        /\ refreshes = 1

\* C7: expires is its initial zero value until the first refresh, and
\* after any refresh it is the token's expiry - 10 minutes exactly.
C7_ExpiryMargin ==
    /\ refreshes = 0 => expires = ZeroTime
    /\ refreshes > 0 => expires = token.Expiry - Margin

C7_Witness == refreshes > 1 /\ expires = T0 + 1

\* C8: while now < expires no step changes assertion or expires or runs the
\* recomputation body, a caller at the expiry check goes to the return
\* statement with the shared lock held, and a caller that returns returns
\* the cached assertion.
C8_IdempotentFastPath ==
    [][(stage = "ok" /\ now < expires) =>
          /\ assertion' = assertion
          /\ expires' = expires
          /\ refreshes' = refreshes
          /\ \A p \in Callers :
                /\ (pc[p] = "l109" /\ pc'[p] # "l109") =>
                       pc'[p] = "l123" /\ deferred'[p] = "RUnlock"
                /\ (ret'[p] # ret[p] /\ ret'[p] # <<>>) =>
                       ret'[p][1] = assertion]_vars

\* two fast-path calls at once, one of them a caller's second call
C8_Witness ==
    /\ now < expires
    /\ \E p, q \in Callers :
          /\ p # q
          /\ pc[p] = "defer" /\ deferred[p] = "RUnlock" /\ calls[p] = 2
          /\ pc[q] = "l123" /\ deferred[q] = "RUnlock"
          /\ ret[p][1] = assertion

\* a caller's expiry check (line 109) for the token of the refresh
\* transition, once the cache has been refreshed
BoundaryCheck(p) ==
    /\ pc[p] = "l109" /\ pc'[p] # "l109"
    /\ token.Expiry = T0 + Margin + 1
    /\ refreshes > 0

\* C9 as stated: for a token expiring at T0 + 10 minutes + 1 second the
\* refreshed cache is valid at T0 (the check takes the fast path) and expired
\* at T0 + 1 second (the check takes the refresh path).
C9_Original ==
    [][\A p \in Callers :
          BoundaryCheck(p) =>
              /\ now = T0 => pc'[p] = "l123"
              /\ now = T0 + 1 => pc'[p] = "l111"]_vars

\* C9 (amended): for that token the refreshed cache is valid at T0 and at
\* T0 + 1 second and expired from T0 + 2 seconds on: the cache is expired
\* only when expires is strictly before the clock.
C9_Boundary ==
    [][\A p \in Callers :
          BoundaryCheck(p) =>
              /\ now <= T0 + 1 => pc'[p] = "l123"
              /\ now >= T0 + 2 => pc'[p] = "l111"]_vars

C9_Witness ==
    /\ token.Expiry = T0 + Margin + 1
    /\ now = T0 + 2
    /\ \E p, q \in Callers :
          /\ pc[p] = "l111" /\ seen[p] = <<1>>
          /\ pc[q] = "l123" /\ deferred[q] = "RUnlock"

\* which sources supply a field: a non-empty option, or the environment
\* variable (for the token, set to a non-empty value)
SuppliedClientID == options.ClientID # "" \/ env[azureClientID] # NotSet
SuppliedTenantID == options.TenantID # "" \/ env[azureTenantID] # NotSet
SuppliedToken ==
    \/ options.FederatedToken.AccessToken # ""
    \/ env[azureFederatedTokentoken] \notin {NotSet, ""}

ExpectedClientID ==
    IF options.ClientID # "" THEN options.ClientID ELSE env[azureClientID]
ExpectedTenantID ==
    IF options.TenantID # "" THEN options.TenantID ELSE env[azureTenantID]

\* the resolved value of each field the constructor got to: the option if
\* not empty, else the environment variable
ResolvedByPrecedence ==
    /\ SuppliedClientID => clientID = ExpectedClientID
    /\ (err # errorClientIDNotSpecified /\ SuppliedToken)
           => token.AccessToken = ExpectedAccessToken
    /\ (err \notin {errorClientIDNotSpecified, errorTokenNotSpecified}
            /\ SuppliedTenantID)
           => tenantID = ExpectedTenantID

\* C10 as stated: the resolved value is the option if not empty, else the
\* environment variable, and the constructor fails with a field's own error
\* exactly when neither source supplies that field.
C10_Original ==
    stage # "new" =>
        /\ ResolvedByPrecedence
        /\ err = errorClientIDNotSpecified <=> ~SuppliedClientID
        /\ err = errorTokenNotSpecified <=> ~SuppliedToken
        /\ err = errorTenantIDNotSpecified <=> ~SuppliedTenantID

\* C10 (amended): the resolved value is the option if not empty, else the
\* environment variable, and the constructor fails with a field's own error
\* exactly when neither source supplies that field and the fields checked
\* before it (clientID, then the token, then tenantID) are supplied.
C10_Precedence ==
    stage # "new" =>
        /\ ResolvedByPrecedence
        /\ err = errorClientIDNotSpecified <=> ~SuppliedClientID
        /\ err = errorTokenNotSpecified <=> (SuppliedClientID /\ ~SuppliedToken)
        /\ err = errorTenantIDNotSpecified <=>
               (SuppliedClientID /\ SuppliedToken /\ ~SuppliedTenantID)

\* the option wins over the environment for one field while another field
\* falls back to the environment
C10_Witness ==
    /\ stage = "resolved"
    /\ options.ClientID = "optClient" /\ env[azureClientID] = "abc"
    /\ clientID = "optClient"
    /\ options.TenantID = "" /\ tenantID = "def"
    /\ options.FederatedToken.AccessToken = "tok2"
    /\ env[azureFederatedTokentoken] = "tok1" /\ token.AccessToken = "tok2"

\* the three environment variables are set to non-empty values and the
\* options are given with an empty FederatedToken.AccessToken
Scenario3 ==
    /\ env[azureClientID] \notin {NotSet, ""}
    /\ env[azureTenantID] \notin {NotSet, ""}
    /\ env[azureFederatedTokentoken] \notin {NotSet, ""}
    /\ ~options.nil
    /\ options.FederatedToken.AccessToken = ""

\* C11 as stated: in scenario 3 the constructor fails with TokenMissing.
C11_Original ==
    (stage # "new" /\ Scenario3) => err = errorTokenNotSpecified

\* C11 (amended): in scenario 3 the constructor returns no configuration
\* error; the token's access token is the value of AZURE_FEDERATED_TOKEN,
\* and the construction succeeds unless the collaborator's constructor fails.
C11_FallsBackToEnvironment ==
    (stage # "new" /\ Scenario3) =>
        /\ err \notin ConfigErrors
        /\ token.AccessToken = env[azureFederatedTokentoken]
        /\ stage = "failed" <=> err = errCollaborator
        /\ stage = "ok" => err = Nil /\ cred # Nil

C11_Witness ==
    /\ Scenario3
    /\ stage = "ok"
    /\ options.ClientID = "" /\ options.TenantID = ""
    /\ token.AccessToken = "tok1"

\* C12: a construction that cannot resolve a required field fails with one
\* configuration error, that of the first unresolved field in the order
\* clientID, token, tenantID, and gives no credential; with nothing in the
\* environment and no options the error is errorClientIDNotSpecified; and a
\* configuration error is returned only when a field is unresolved.
C12_FirstFieldError ==
    stage # "new" =>
        /\ ~SuppliedClientID => err = errorClientIDNotSpecified
        /\ (SuppliedClientID /\ ~SuppliedToken) => err = errorTokenNotSpecified
        /\ (SuppliedClientID /\ SuppliedToken /\ ~SuppliedTenantID)
               => err = errorTenantIDNotSpecified
        /\ err \in ConfigErrors =>
               /\ stage = "failed" /\ cred = Nil
               /\ ~(SuppliedClientID /\ SuppliedToken /\ SuppliedTenantID)
        /\ stage = "failed" => cred = Nil /\ err \in ConfigErrors \cup {errCollaborator}
        /\ (options.nil /\ \A v \in EnvNames : env[v] = NotSet)
               => err = errorClientIDNotSpecified

\* two fields are unresolved and the error is that of the one checked first
C12_Witness ==
    /\ stage = "failed"
    /\ SuppliedClientID /\ ~SuppliedToken /\ ~SuppliedTenantID
    /\ err = errorTokenNotSpecified

\* C13: when a required field is unresolved the constructor returns without
\* constructing the collaborator (it never gets to line 87, the
\* collaborator gives neither a credential nor an error), and no goroutine
\* ever calls getAssertion or GetToken on such a configuration.
C13_FailFast ==
    (~(SuppliedClientID /\ SuppliedToken /\ SuppliedTenantID) \/ err \in ConfigErrors) =>
        /\ stage \in {"new", "failed"}
        /\ err # errCollaborator
        /\ cred = Nil
        /\ \A p \in Callers :
              calls[p] = 0 /\ pc[p] = "idle" /\ ret[p] = <<>> /\ getToken[p] = <<>>

C13_Witness ==
    /\ stage = "failed"
    /\ err = errorTenantIDNotSpecified
    /\ SuppliedClientID /\ SuppliedToken /\ ~SuppliedTenantID

\* a caller that found the cache not expired under the shared lock
FastPath(p) == deferred[p] = "RUnlock"

\* C14: a caller that found the cache not expired under the shared lock is
\* at the return statement or its deferred RUnlock, has not requested the
\* exclusive lock, and can always take its next step; and a caller at RLock
\* waits only for a writer, never for the callers holding the shared lock.
C14_NonBlockingFastPath ==
    \A p \in Callers :
        /\ FastPath(p) =>
               /\ pc[p] \in {"l123", "defer"}
               /\ p \notin mtx.w
               /\ ENABLED Step(p)
        /\ (pc[p] = "l108" /\ mtx.w = {}) => ENABLED L108(p)

\* every caller is inside the shared-lock section on the fast path at once
C14_Witness ==
    /\ mtx.readers = NumCallers
    /\ \A p \in Callers : FastPath(p) /\ pc[p] = "l123"

\* C15: once the constructor has stored the token, no step (of getAssertion,
\* of GetToken, of the clock) changes its access token or its expiry.
C15_TokenImmutable ==
    [][(stage \in {"resolved", "ok"}) => (token' = token)]_vars

\* the token came from the options; getAssertion has refreshed the cache,
\* and a goroutine has made all its calls and a GetToken
C15_Witness ==
    /\ token = [AccessToken |-> "tok2", Expiry |-> T0 + Margin + 1]
    /\ refreshes > 1
    /\ \E p \in Callers : calls[p] = MaxCalls /\ pc[p] = "got"

\* C16: a construction that fails for another reason than the configuration
\* returns the collaborator constructor's error and no credential, and
\* every GetToken returns the pair the collaborator's GetToken returned.
C16_PassThrough ==
    /\ (stage = "failed" /\ err \notin ConfigErrors) =>
           err = errCollaborator /\ cred = Nil
    /\ err = errCollaborator => stage = "failed" /\ cred = Nil
    /\ \A p \in Callers : getToken[p] # <<>> => getToken[p][2] = getToken[p][1]

\* one GetToken returned the collaborator's error, another its token
C16_Witness ==
    \E p, q \in Callers :
        /\ pc[p] = "got" /\ getToken[p][2][2] # Nil
        /\ pc[q] = "got" /\ getToken[q][2] = <<"accessToken", Nil>>

\* C17: a caller on the slow path whose double check (line 115) finds the
\* cache not expired goes straight to the return statement; from there to
\* its return it changes neither assertion nor expires nor runs the body,
\* and it returns the assertion that is published.
Skipping(p) ==
    /\ pc[p] = "l115" /\ pc'[p] # "l115"
    /\ ~(expires < now)

C17_DoubleCheckSkip ==
    [][\A p \in Callers :
          /\ Skipping(p) =>
                 /\ pc'[p] = "l123"
                 /\ assertion' = assertion /\ expires' = expires
                 /\ refreshes' = refreshes
          /\ (pc[p] \in {"l123", "defer"} /\ deferred[p] = "Unlock"
                  /\ pc'[p] # pc[p]) =>
                 /\ assertion' = assertion /\ expires' = expires
                 /\ refreshes' = refreshes
                 /\ pc[p] = "l123" =>
                        ret'[p] = <<assertion, Nil>> /\ assertion = token.AccessToken]_vars

\* the caller raced with another that refreshed the cache first, and is
\* now at the return statement without having run the body (the other
\* caller has returned and the body has run once)
C17_Witness ==
    \E p, q \in Callers :
        /\ p # q
        /\ pc[p] = "l123" /\ deferred[p] = "Unlock" /\ seen[p] = <<0>>
        /\ pc[q] = "ret" /\ seen[q] = <<0>>
        /\ refreshes = 1 /\ TokenFresh

\* C18: the lock's reader count is the number of callers between RLock and
\* RUnlock, the write lock is held exactly by the caller between Lock and
\* its deferred Unlock, a caller requesting or holding the exclusive lock
\* holds no shared lock, and when no call is in progress the lock has no
\* readers and no writer.
C18_LockBalance ==
    /\ mtx.readers = Cardinality({p \in Callers : HoldsShared(p)})
    /\ mtx.w = {p \in Callers : pc[p] = "l112w" \/ InExclusive(p)}
    /\ mtx.locked <=> \E p \in Callers : InExclusive(p)
    /\ \A p \in Callers :
          /\ ~(HoldsShared(p) /\ (pc[p] \in {"l112", "l112w"} \/ InExclusive(p)))
          /\ pc[p] \in {"l123", "defer"} => deferred[p] \in {"RUnlock", "Unlock"}
          /\ pc[p] \notin {"l115", "l116", "l118", "l123", "defer"} => deferred[p] = "none"
    /\ (\A p \in Callers : pc[p] \in {"idle", "ret", "got"})
           => mtx = [readers |-> 0, w |-> {}, locked |-> FALSE]

\* every caller has returned, by the fast path, the slow path with the
\* recomputation and the slow path without it
C18_Witness ==
    /\ \A p \in Callers : pc[p] = "ret" /\ calls[p] = MaxCalls
    /\ \E p, q \in Callers : seen[p] = <<>> /\ seen[q] # <<>>
    /\ refreshes > 0
    /\ mtx.readers = 0 /\ mtx.w = {}

InProgress(p) == pc[p] \notin {"idle", "ret", "got"}

\* C19: under fair scheduling of the callers, every call of getAssertion
\* that has started returns, whatever the other callers do; and at every
\* moment with a call in progress some caller in progress can take its next
\* step (no deadlock).
C19_Termination ==
    /\ [](\A p \in Callers :
             InProgress(p) => \E q \in Callers : InProgress(q) /\ ENABLED Step(q))
    /\ \A p \in Callers : InProgress(p) ~> (pc[p] = "ret")

\* both callers found the cache expired before either refreshed it, so they
\* contended for the exclusive lock, and both have returned
C19_Witness ==
    /\ \A p \in Callers : pc[p] = "ret" /\ seen[p] = <<0>> /\ calls[p] = 1
    /\ refreshes >= 1

\* the refreshed cache would be expired now: token expiry - 10 minutes is
\* before the clock
TokenStale == stage = "ok" /\ Before(Add(token.Expiry, -Margin), now)

\* the same from the first call on
StaleFromStart == stage = "ok" /\ Before(Add(token.Expiry, -Margin), T0)

RECURSIVE SumCalls(_)
SumCalls(n) == IF n = 0 THEN 0 ELSE calls[n] + SumCalls(n - 1)

\* the callers whose current call has not completed the recomputation
BeforeRecomputed ==
    {p \in Callers :
        pc[p] \in {"l108", "l109", "l111", "l112", "l112w", "l115", "l116", "l118"}}

\* C20: while the token's expiry less ten minutes is before the clock, the
\* cache is expired, and both checks of a call (lines 109 and 115) send it
\* on to the exclusive path and the recomputation; when this holds from the
\* first call on, no call takes the fast path, the recomputations number
\* the calls (less those still on their way to it), and every call returns
\* the token's AccessToken with a nil error.
C20_NeverValid ==
    /\ [](TokenStale => Before(expires, now))
    /\ [](StaleFromStart =>
             /\ \A p \in Callers :
                   /\ ~FastPath(p)
                   /\ ret[p] # <<>> => ret[p] = <<token.AccessToken, Nil>>
             /\ refreshes = SumCalls(NumCallers) - Cardinality(BeforeRecomputed))
    /\ [][\A p \in Callers :
             TokenStale =>
                 /\ (pc[p] = "l109" /\ pc'[p] # "l109") => pc'[p] = "l111"
                 /\ (pc[p] = "l115" /\ pc'[p] # "l115") => pc'[p] = "l116"
                 /\ (pc[p] = "l118" /\ pc'[p] # "l118") =>
                        refreshes' = refreshes + 1 /\ Before(expires', now')]_vars

\* the token came from the environment with the zero expiry, every caller
\* has made all its calls, and each call recomputed
C20_Witness ==
    /\ token = [AccessToken |-> "tok1", Expiry |-> ZeroTime]
    /\ \A p \in Callers : pc[p] = "ret" /\ calls[p] = MaxCalls
    /\ refreshes = NumCallers * MaxCalls
    /\ refreshes > 1

====
